---- MODULE Spec2Model ----
(***************************************************************************)
(* Model of the subdomain enumeration engine of RedK1t/Recon:              *)
(*   core.py            enumerate_subdomains (wordlist selection, DNS      *)
(*                      phase, progress rule)                              *)
(*   http_validator.py  check_http, validate_subdomains (HTTP phase)       *)
(*   valid_site_api.py  process_subdomains                                 *)
(*   api.py             websocket_enumerate / run_enumeration (queue       *)
(*                      bridge between the worker thread and the event     *)
(*                      loop)                                              *)
(* Percentages are Python floats (IEEE-754 binary64); the arithmetic is    *)
(* reproduced bit for bit because the 5-point rule compares rounded        *)
(* values.                                                                 *)
(***************************************************************************)
EXTENDS Integers, Sequences, FiniteSets, TLC

(***************************************************************************)
(* Natural numbers of arbitrary size as sequences of 15-bit limbs, least   *)
(* significant limb first, without high zero limbs (<<>> is 0).            *)
(***************************************************************************)
LimbBits == 15

Base == 2^LimbBits

MaxOf(S) == CHOOSE x \in S : \A y \in S : y <= x

NatL(n) == IF n = 0 THEN <<>>
           ELSE IF n < Base THEN <<n>>
           ELSE <<n % Base, n \div Base>>

StripL(a) ==
    LET nz == {i \in 1..Len(a) : a[i] # 0}
    IN  IF nz = {} THEN <<>> ELSE SubSeq(a, 1, MaxOf(nz))

RestOf(a) == IF a = <<>> THEN <<>> ELSE Tail(a)

Limb0(a) == IF a = <<>> THEN 0 ELSE Head(a)

RECURSIVE AddL(_, _, _)
AddL(a, b, c) ==
    IF a = <<>> /\ b = <<>>
    THEN NatL(c)
    ELSE LET s == Limb0(a) + Limb0(b) + c
         IN  <<s % Base>> \o AddL(RestOf(a), RestOf(b), s \div Base)

RECURSIVE MulL(_, _, _)
MulL(a, k, c) ==
    IF a = <<>>
    THEN NatL(c)
    ELSE LET s == Head(a) * k + c
         IN  <<s % Base>> \o MulL(Tail(a), k, s \div Base)

\* number of bits of a (a without high zero limbs)
BitLenL(a) ==
    IF a = <<>> THEN 0
    ELSE LimbBits * (Len(a) - 1)
           + (CHOOSE k \in 1..LimbBits : 2^(k - 1) <= a[Len(a)] /\ a[Len(a)] < 2^k)

\* bit k of a, bit 1 the least significant
BitL(a, k) ==
    LET i == ((k - 1) \div LimbBits) + 1
    IN  IF i > Len(a) THEN 0 ELSE (a[i] \div 2^((k - 1) % LimbBits)) % 2

\* a * 2^s
ShlL(a, s) ==
    IF a = <<>> THEN <<>>
    ELSE [i \in 1..(s \div LimbBits) |-> 0] \o MulL(a, 2^(s % LimbBits), 0)

\* a div 2^d
ShrL(a, d) ==
    LET q == d \div LimbBits
        r == d % LimbBits
        n == Len(a) - q
    IN  IF n <= 0 THEN <<>>
        ELSE StripL([i \in 1..n |->
                 (a[q + i] \div 2^r)
                   + (IF q + i + 1 <= Len(a)
                      THEN (a[q + i + 1] % 2^r) * 2^(LimbBits - r)
                      ELSE 0)])

\* a >= b for numbers of the same number of limbs
GeL(a, b) ==
    LET diff == {i \in 1..Len(a) : a[i] # b[i]}
    IN  diff = {} \/ a[MaxOf(diff)] > b[MaxOf(diff)]

\* the n base-2^15 digits of (r * Base^n) div t, with the final remainder
RECURSIVE DivL(_, _, _, _)
DivL(r, t, n, acc) ==
    IF n = 0
    THEN [q |-> acc, rem |-> r]
    ELSE DivL((r * Base) % t, t, n - 1, <<(r * Base) \div t>> \o acc)

(***************************************************************************)
(* binary64: a non-negative float is [m, e] standing for m * 2^e, m a      *)
(* 53-bit number with its top bit set, or FZero.                           *)
(***************************************************************************)
MantBits == 53

FZero == [m |-> <<>>, e |-> 0]

\* round-to-nearest-even of the exact value n0 * 2^e
FRound(n0, e) ==
    LET n == StripL(n0)
        L == BitLenL(n)
    IN  IF L = 0 THEN FZero
        ELSE IF L <= MantBits
        THEN [m |-> ShlL(n, MantBits - L), e |-> e - (MantBits - L)]
        ELSE LET d     == L - MantBits
                 kept  == ShrL(n, d)
                 half  == BitL(n, d) = 1
                 stick == \E k \in 1..(d - 1) : BitL(n, k) = 1
                 up    == half /\ (stick \/ BitL(kept, 1) = 1)
                 k2    == IF up THEN AddL(kept, <<1>>, 0) ELSE kept
             IN  IF BitLenL(k2) > MantBits
                 THEN [m |-> ShrL(k2, 1), e |-> e + d + 1]
                 ELSE [m |-> k2, e |-> e + d]

FromInt(n) == FRound(NatL(n), 0)

\* Python's int / int (true division, correctly rounded), 0 < c, 0 < t
FDivInt(c, t) ==
    LET d  == DivL(c % t, t, 5, <<>>)
        st == IF d.rem = 0 THEN 0 ELSE 1
    IN  FRound(MulL(d.q \o NatL(c \div t), 2, st), 0 - (5 * LimbBits + 1))

\* float * small positive integer
FMulInt(x, k) == FRound(MulL(x.m, k, 0), x.e)

\* float + small non-negative integer (x.e <= 0 for every value below 2^53)
FAddInt(x, n) ==
    IF x = FZero THEN FromInt(n)
    ELSE FRound(AddL(x.m, ShlL(NatL(n), 0 - x.e), 0), x.e)

FGe(a, b) ==
    IF b = FZero THEN TRUE
    ELSE IF a = FZero THEN FALSE
    ELSE IF a.e # b.e THEN a.e > b.e
    ELSE GeL(a.m, b.m)

(***************************************************************************)
(* Numbers held by the progress counters: a Python int is [i |-> n], a     *)
(* Python float is a binary64 record.                                      *)
(***************************************************************************)
PyInt(n) == [i |-> n]

IsInt(x) == "i" \in DOMAIN x

\* x + 5 (core.py:185, http_validator.py:103): int + int stays an int
NumAdd(x, n) == IF IsInt(x) THEN PyInt(x.i + n) ELSE FAddInt(x, n)

\* float >= int-or-float
NumGe(p, q) ==
    IF IsInt(q)
    THEN (IF q.i <= 0 THEN TRUE ELSE FGe(p, FromInt(q.i)))
    ELSE FGe(p, q)

(***************************************************************************)
(* Bounds of the model.                                                    *)
(***************************************************************************)
MaxTotal == 2

MaxThreads == 2

MaxBigTotal == 59

MaxHosts == 2

MaxRecords == 2

MaxLines == 2

Prefixes == {"www", "mail"}

Domain == "example.com"

None == "None"

\* Python's None where the other values are records
PyNone == [none |-> TRUE]

IsNone(x) == "none" \in DOMAIN x

Statuses == {"200"}

RECURSIVE SeqsUpTo(_, _)
SeqsUpTo(S, n) ==
    IF n = 0 THEN {<<>>}
    ELSE LET prev == SeqsUpTo(S, n - 1)
         IN  prev \cup {Append(q, x) : q \in {r \in prev : Len(r) = n - 1}, x \in S}

(***************************************************************************)
(* core.py                                                                 *)
(***************************************************************************)
PRESET_NAMES ==
    [p \in {"1", "2", "3", "4", "5", "6"} |->
        CASE p = "1" -> <<"top1k", "top1k.txt">>
          [] p = "2" -> <<"top10k", "top10k.txt">>
          [] p = "3" -> <<"top25k", "top25k.txt">>
          [] p = "4" -> <<"top50k", "top50k.txt">>
          [] p = "5" -> <<"top100k", "top100k.txt">>
          [] OTHER   -> <<"custom", None>>]

get_preset_path_NoFallback(preset_id) ==
    IF preset_id \in DOMAIN PRESET_NAMES
    THEN PRESET_NAMES[preset_id]
    ELSE PRESET_NAMES["6"]

get_preset_path(preset_id) ==
    IF preset_id \in DOMAIN PRESET_NAMES
    THEN PRESET_NAMES[preset_id]
    ELSE PRESET_NAMES["1"]

\* worker / resolve_a: the host queried for a prefix, and the value the
\* future carries: a ResolvedHost, or None on any resolver failure (the
\* bare except of resolve_a leaves no exception to reach the future)
HostOf(pfx) == <<pfx, Domain>>

IpsOf(host) == <<<<"ip", host[1]>>>>

resolve_a_NoIps(host, dnszone) ==
    IF host[1] \in dnszone THEN [host |-> host, ips |-> <<>>] ELSE PyNone

resolve_a_EmptyOnFailure(host, dnszone) ==
    [host |-> host, ips |-> IF host[1] \in dnszone THEN IpsOf(host) ELSE <<>>]

resolve_a(host, dnszone) ==
    IF host[1] \in dnszone THEN [host |-> host, ips |-> IpsOf(host)] ELSE PyNone

worker(pfx, dnszone) == resolve_a(HostOf(pfx), dnszone)

\* percentage = (completed / total_prefixes) * 100
DnsPercentage(c, t) == FMulInt(FDivInt(c, t), 100)

\* completed += 1
Incr_Skipped(n) == n

Incr(n) == n + 1

\* percentage >= last_reported_percentage + 5 or percentage == 100
DnsShouldReport_Strict(percentage, last) ==
    \/ NumGe(percentage, NumAdd(last, 5)) /\ percentage # NumAdd(last, 5)
    \/ percentage = FromInt(100)

DnsShouldReport(percentage, last) ==
    NumGe(percentage, NumAdd(last, 5)) \/ percentage = FromInt(100)

\* last_reported_percentage = percentage, inside the if
UpdateLastReported_Never(report, percentage, last) == last

UpdateLastReported(report, percentage, last) ==
    IF report THEN percentage ELSE last

ProgressEvent(percentage, c, t) ==
    [type |-> "progress", percentage |-> percentage, completed |-> c, total |-> t]

\* which wordlist the call reads (core.py 143-150): the outcome is the
\* file that is loaded or the exception that is raised
WordlistChoice_NoFileTest(wordlist_path, preset_id, preset_exists) ==
    IF wordlist_path = "file"
    THEN [ok |-> TRUE, path |-> "custom"]
    ELSE LET preset_path == get_preset_path(preset_id)[2]
         IN  IF preset_path # None
             THEN [ok |-> TRUE, path |-> preset_path]
             ELSE [ok |-> FALSE, exc |-> "ValueError"]

WordlistChoice(wordlist_path, preset_id, preset_exists) ==
    IF wordlist_path = "file"
    THEN [ok |-> TRUE, path |-> "custom"]
    ELSE LET preset_path == get_preset_path(preset_id)[2]
         IN  IF preset_path # None
             THEN IF preset_exists
                  THEN [ok |-> TRUE, path |-> preset_path]
                  ELSE [ok |-> FALSE, exc |-> "FileNotFoundError"]
             ELSE [ok |-> FALSE, exc |-> "ValueError"]

WordlistArgs ==
    [wordlist_path : {"none", "missing", "file"}, preset_id : {"1", "6", "9"},
     preset_exists : BOOLEAN, passive : {FALSE}]

(***************************************************************************)
(* Passive enumeration.  A name of a crt.sh record is the text             *)
(* ["*." if wild] pfx sep dom, already trimmed and lower-cased; a response *)
(* is a timeout, or a status code with a body that is JSON (a set of       *)
(* names) or not.                                                          *)
(***************************************************************************)
CrtNames ==
    {[wild |-> FALSE, pfx |-> "www", sep |-> ".", dom |-> Domain],
     [wild |-> TRUE,  pfx |-> "api", sep |-> ".", dom |-> Domain],
     [wild |-> FALSE, pfx |-> "",    sep |-> "",  dom |-> Domain],
     [wild |-> FALSE, pfx |-> "not", sep |-> "",  dom |-> Domain],
     [wild |-> FALSE, pfx |-> "www", sep |-> ".", dom |-> "other.org"]}

CrtResponses ==
    {[kind |-> "timeout"]}
      \cup {[kind |-> "http", code |-> c, json |-> FALSE, names |-> {}] :
               c \in {"200", "503"}}
      \cup {[kind |-> "http", code |-> c, json |-> TRUE, names |-> ns] :
               c \in {"200", "503"},
               ns \in {x \in SUBSET CrtNames : Cardinality(x) <= MaxRecords}}

\* s.replace("*.", ""), then s.endswith(domain): the set subs (core.py 38-48)
CrtSubs(names) ==
    {[pfx |-> n.pfx, sep |-> n.sep, dom |-> n.dom] :
        n \in {m \in names : m.dom = Domain}}

\* fetch_crtsh_subdomains: the set it returns as a list; [] on any failure
fetch_crtsh_subdomains_AnyStatus(response) ==
    IF response.kind = "http" /\ response.json
    THEN CrtSubs(response.names)
    ELSE {}

fetch_crtsh_subdomains(response) ==
    IF response.kind = "http" /\ response.code = "200" /\ response.json
    THEN CrtSubs(response.names)
    ELSE {}

\* prefix = sub.replace(f".{domain}", ""); kept if prefix and prefix != domain
\* (core.py 156-160)
PrefixOf(sub) == IF sub.sep = "." THEN sub.pfx ELSE sub.pfx \o sub.dom

Extracted(passive_subs) ==
    {PrefixOf(sub) : sub \in {x \in passive_subs :
                                 PrefixOf(x) # "" /\ PrefixOf(x) # Domain}}

\* list(set(prefixes + extracted)): the distinct prefixes in any order
Orders(S) ==
    {q \in [1..Cardinality(S) -> S] : \A i, j \in DOMAIN q : q[i] = q[j] => i = j}

Merged(words, extracted) ==
    Orders({words[i] : i \in DOMAIN words} \cup extracted)

\* wordlists of the progress-rule runs: t prefixes, t up to MaxBigTotal
BigWordlists == {[i \in 1..t |-> "www"] : t \in 1..MaxBigTotal}

VARIABLES
    entry,                      \* the function that was called
    dpc,                        \* position in enumerate_subdomains
    wl,                         \* wordlist_path, preset_id, passive and the files on disk
    wordlist,                   \* the prefixes load_wordlist returned
    crt,                        \* the response of crt.sh, or None
    raised,                     \* exception that left the call, or None
    loaded,                     \* wordlist file that was read, or None
    prefixes, zone, threads,
    progress_callback, subdomain_callback,
    total_prefixes, completed, last_reported_percentage,
    fut,                        \* futures: index -> state of the task
    results,
    events,                     \* callback invocations, in order
    retval,
    hpc,                        \* position in validate_subdomains
    subdomain_results, validation_callback, v_progress_callback,
    total, v_completed, v_last_reported_percentage,
    tasks,                      \* check_http tasks: index -> state
    doneq,                      \* finished tasks not yet awaited, oldest first
    live_web_services, dns_only,
    v_retval,
    ps_pc,                      \* position in process_subdomains
    subs, ps_res, dns_map, alive, ps_retval,
    ws_pc,                      \* position of websocket_enumerate
    connected,                  \* the client still holds the connection
    request,                    \* the first message of the client
    thread_pc,                  \* position of run_enumeration
    ready,                      \* callbacks the event loop will run, in order
    message_queue, enumeration_complete,
    getter,                     \* the consumer's pending message_queue.get()
    timer,                      \* the 0.1 s timer of wait_for
    produced,                   \* events handed to the bridge, in order
    forwarded                   \* events sent to the client, in order

dnsvars == <<dpc, wl, wordlist, crt, raised, loaded, prefixes, zone, threads, progress_callback,
             subdomain_callback, total_prefixes, completed,
             last_reported_percentage, fut, results, retval>>

httpvars == <<hpc, subdomain_results, validation_callback, v_progress_callback,
              total, v_completed, v_last_reported_percentage, tasks, doneq,
              live_web_services, dns_only, v_retval>>

psvars == <<ps_pc, subs, ps_res, dns_map, alive, ps_retval>>

\* concurrent jobs: for each job the locals of its call of
\* enumerate_subdomains (core.py 163-168), the queue its callbacks put to
\* and the events its consumer sent (api.py 207-274)
VARIABLE jobs

\* the HTTP response of the REST handler enumerate (api.py 127-162), or None
VARIABLE http_response

wsvars == <<ws_pc, connected, request, thread_pc, ready, message_queue,
            enumeration_complete, getter, timer, produced, forwarded>>

vars == <<entry, dnsvars, httpvars, psvars, wsvars, events, jobs, http_response>>

InitDns ==
    /\ dpc = "idle"
    /\ wl = PyNone
    /\ wordlist = <<>>
    /\ crt = PyNone
    /\ raised = None
    /\ loaded = None
    /\ prefixes = <<>>
    /\ zone = {}
    /\ threads = 1
    /\ progress_callback = FALSE
    /\ subdomain_callback = FALSE
    /\ total_prefixes = 0
    /\ completed = 0
    /\ last_reported_percentage = PyInt(-5)
    /\ fut = <<>>
    /\ results = <<>>
    /\ retval = PyNone

InitHttp ==
    /\ hpc = "idle"
    /\ subdomain_results = <<>>
    /\ validation_callback = FALSE
    /\ v_progress_callback = FALSE
    /\ total = 0
    /\ v_completed = 0
    /\ v_last_reported_percentage = PyInt(45)
    /\ tasks = <<>>
    /\ doneq = <<>>
    /\ live_web_services = <<>>
    /\ dns_only = <<>>
    /\ v_retval = PyNone

InitPs ==
    /\ ps_pc = "idle"
    /\ subs = <<>>
    /\ ps_res = <<>>
    /\ dns_map = <<>>
    /\ alive = <<>>
    /\ ps_retval = PyNone

InitWs ==
    /\ ws_pc = "idle"
    /\ connected = FALSE
    /\ request = None
    /\ thread_pc = "none"
    /\ ready = <<>>
    /\ message_queue = <<>>
    /\ enumeration_complete = FALSE
    /\ getter = "none"
    /\ timer = "off"
    /\ produced = <<>>
    /\ forwarded = <<>>

Jobs == {"a", "b"}

NoJob ==
    [pc |-> "none", kwargs |-> {}, total_prefixes |-> 0, completed |-> 0,
     last_reported_percentage |-> PyInt(-5), results |-> <<>>,
     message_queue |-> <<>>, forwarded |-> <<>>]

Init ==
    /\ entry = None
    /\ jobs = [j \in Jobs |-> NoJob]
    /\ http_response = PyNone
    /\ events = <<>>
    /\ InitDns
    /\ InitHttp
    /\ InitPs
    /\ InitWs

\* enumerate_subdomains is entered with its arguments (core.py 111-140)
EnumEnter(a, th, pcb, scb) ==
    /\ dpc' = "select"
    /\ wl' = a
    /\ UNCHANGED <<jobs, http_response, wordlist, crt>>
    /\ threads' = th
    /\ progress_callback' = pcb
    /\ subdomain_callback' = scb
    /\ UNCHANGED <<jobs, http_response, wsvars, raised, loaded, prefixes, zone, total_prefixes, completed,
                   last_reported_percentage, fut, results, retval, httpvars,
                   psvars, events>>

EnumCall ==
    /\ entry = None
    /\ entry' = "enumerate_subdomains"
    /\ \E a \in WordlistArgs, th \in 1..MaxThreads, pcb \in BOOLEAN,
          scb \in BOOLEAN : EnumEnter(a, th, pcb, scb)

\* the wordlist is selected and read, and every prefix is submitted to the
\* pool (core.py 142-172); words is the content of the file that is read and
\* dnszone the names that resolve.  wordlist_path and preset_id are dead
\* after the selection and are dropped from the state.
EnumSelect(words, dnszone, response, merged) ==
    LET w == WordlistChoice(wl.wordlist_path, wl.preset_id, wl.preset_exists)
        final == IF wl.passive THEN merged ELSE words
    IN  /\ dpc = "select"
        /\ IF w.ok
           THEN /\ dpc' = "dns"
                /\ loaded' = w.path
                /\ wl' = PyNone
                /\ wordlist' = words
                /\ crt' = IF wl.passive THEN response ELSE PyNone
                /\ wl.passive
                     => merged \in Merged(words,
                                          Extracted(fetch_crtsh_subdomains(response)))
                /\ prefixes' = final
                /\ total_prefixes' = Len(final)
                /\ fut' = [i \in 1..Len(final) |-> [st |-> "queued"]]
                /\ zone' = dnszone
                /\ UNCHANGED raised
           ELSE /\ dpc' = "raised"
                /\ raised' = w.exc
                /\ UNCHANGED <<wl, wordlist, crt, loaded, prefixes,
                               total_prefixes, fut, zone>>
        /\ completed' = 0
        /\ last_reported_percentage' = PyInt(-5)
        /\ results' = <<>>
        /\ UNCHANGED <<jobs, http_response, wsvars, entry, threads, progress_callback, subdomain_callback,
                       retval, httpvars, psvars, events>>

EnumLoad ==
    \E words \in SeqsUpTo(Prefixes, MaxTotal), dnszone \in SUBSET Prefixes :
        EnumSelect(words, dnszone, PyNone, <<>>)

Running == {i \in DOMAIN fut : fut[i].st = "running"}

Queued == {i \in DOMAIN fut : fut[i].st = "queued"}

Oldest(S) == CHOOSE j \in S : \A k \in S : j <= k

\* ThreadPoolExecutor(max_workers=threads): a worker is idle
FreeWorker_Unbounded(running, max_workers) == TRUE

FreeWorker(running, max_workers) == Cardinality(running) < max_workers

\* a pool worker takes the oldest queued task (ThreadPoolExecutor, core.py 171)
DnsStart ==
    /\ dpc = "dns"
    /\ Queued # {}
    /\ FreeWorker(Running, threads)
    /\ fut' = [fut EXCEPT ![Oldest(Queued)] = [st |-> "running"]]
    /\ UNCHANGED <<jobs, http_response, wsvars, entry, dpc, wl, wordlist, crt, raised, loaded, prefixes, zone, threads,
                   progress_callback, subdomain_callback, total_prefixes,
                   completed, last_reported_percentage, results, retval, events, httpvars, psvars>>

\* the task of a worker ends: the future carries worker()'s value
DnsFinish(i) ==
    /\ dpc = "dns"
    /\ fut[i].st = "running"
    /\ fut' = [fut EXCEPT ![i] = [st |-> "done", res |-> worker(prefixes[i], zone)]]
    /\ UNCHANGED <<jobs, http_response, wsvars, entry, dpc, wl, wordlist, crt, raised, loaded, prefixes, zone, threads,
                   progress_callback, subdomain_callback, total_prefixes,
                   completed, last_reported_percentage, results, retval, events, httpvars, psvars>>

\* if res: ... if subdomain_callback: subdomain_callback(res)
Discovery_Never(res, callback) == <<>>

Discovery(res, callback) ==
    IF ~IsNone(res) /\ callback
    THEN <<[type |-> "subdomain", host |-> res.host, ips |-> res.ips]>>
    ELSE <<>>

\* results.append(res) (core.py 191)
Collect_Front(found, res) == <<res>> \o found

Collect(found, res) == Append(found, res)

\* the callbacks of one completion in the order of the loop body: the
\* progress callback (core.py 182-187, http_validator.py 103-105), then the
\* discovery or classification callback (core.py 190-193,
\* http_validator.py 107-129)
CallbackOrder_ProgressLast(progress, found) == found \o progress

CallbackOrder(progress, found) == progress \o found

\* the body of the as_completed loop for future i with result res
\* (core.py 174-193)
LoopBody(i, res) ==
    LET c          == Incr(completed)
        percentage == DnsPercentage(c, total_prefixes)
        report     == progress_callback
                        /\ DnsShouldReport(percentage, last_reported_percentage)
        ev1        == IF report
                      THEN <<ProgressEvent(percentage, c, total_prefixes)>>
                      ELSE <<>>
        ev2        == Discovery(res, subdomain_callback)
    IN  /\ completed' = c
        /\ last_reported_percentage' =
              UpdateLastReported(report, percentage, last_reported_percentage)
        /\ results' = IF ~IsNone(res) THEN Collect(results, res) ELSE results
        /\ events' = events \o CallbackOrder(ev1, ev2)
        /\ fut' = [fut EXCEPT ![i] = [st |-> "yielded"]]
        /\ UNCHANGED <<jobs, http_response, wsvars, entry, dpc, wl, wordlist, crt, raised, loaded, prefixes, zone, threads,
                       progress_callback, subdomain_callback, total_prefixes,
                       retval, httpvars, psvars>>

\* as_completed yields a finished future (core.py 173)
DnsConsume(i) ==
    /\ dpc = "dns"
    /\ fut[i].st = "done"
    /\ LoopBody(i, fut[i].res)

\* every future was yielded: the pool is shut down and the result returned
\* (core.py 195-201)
DnsReturn ==
    /\ dpc = "dns"
    /\ \A i \in DOMAIN fut : fut[i].st = "yielded"
    /\ dpc' = "returned"
    /\ retval' = [subdomains |-> results, count |-> Len(results)]
    /\ UNCHANGED <<jobs, http_response, wsvars, entry, wl, wordlist, crt, raised, loaded, prefixes, zone, threads,
                   progress_callback, subdomain_callback, total_prefixes,
                   completed, last_reported_percentage, fut, results, events,
                   httpvars, psvars>>

(***************************************************************************)
(* http_validator.py                                                       *)
(***************************************************************************)
ResolvedHosts == {[host |-> HostOf(p), ips |-> IpsOf(HostOf(p))] : p \in Prefixes}

Url(scheme, subdomain) == [scheme |-> scheme, host |-> subdomain]

\* "if status:" - a status code is truthy, None is not
Truthy(status) == status # None

\* check_http's return values (http_validator.py 47-59)
Found(subdomain, url, status, ips) ==
    [subdomain |-> subdomain, url |-> url, status |-> status, ips |-> ips]

NotFound_LastUrl(subdomain, ips) ==
    [subdomain |-> subdomain, url |-> Url("https", subdomain), status |-> None,
     ips |-> ips]

NotFound(subdomain, ips) ==
    [subdomain |-> subdomain, url |-> PyNone, status |-> None, ips |-> ips]

\* http_percentage = 50 + (completed / total) * 50
HttpPercentage(c, t) == FAddInt(FMulInt(FDivInt(c, t), 50), 50)

\* http_percentage >= last_reported_percentage + 5 or completed == total
HttpShouldReport_NoFinal(percentage, last, c, t) ==
    NumGe(percentage, NumAdd(last, 5))

HttpShouldReport(percentage, last, c, t) ==
    NumGe(percentage, NumAdd(last, 5)) \/ c = t

\* "if total == 0" (http_validator.py 77)
EmptyInput_Never(t) == FALSE

EmptyInput(t) == t = 0

\* the body of validate_subdomains up to the creation of the tasks
\* (http_validator.py 76-91)
ValidateBegin(input, vcb, pcb) ==
    /\ subdomain_results' = input
    /\ validation_callback' = vcb
    /\ v_progress_callback' = pcb
    /\ total' = Len(input)
    /\ v_completed' = 0
    /\ v_last_reported_percentage' = PyInt(45)
    /\ live_web_services' = <<>>
    /\ dns_only' = <<>>
    /\ doneq' = <<>>
    /\ IF EmptyInput(Len(input))
       THEN /\ hpc' = "returned"
            /\ v_retval' = [live_web_services |-> <<>>, dns_only |-> <<>>]
            /\ tasks' = <<>>
       ELSE /\ hpc' = "http"
            /\ v_retval' = PyNone
            /\ tasks' = [i \in 1..Len(input) |-> [st |-> "http"]]

ValidateCall ==
    /\ entry = None
    /\ entry' = "validate_subdomains"
    /\ \E input \in SeqsUpTo(ResolvedHosts, MaxHosts),
          vcb \in BOOLEAN, pcb \in BOOLEAN : ValidateBegin(input, vcb, pcb)
    /\ UNCHANGED <<jobs, http_response, wsvars, dnsvars, psvars, events>>

\* check_http, first url: fetch_status(http://<subdomain>); the function of
\* http_validator.py (27-59) and its copy in valid_site_api.py (68-80)
HttpProbe(i) ==
    /\ hpc = "http" \/ ps_pc = "http"
    /\ tasks[i].st = "http"
    /\ \E status \in Statuses \cup {None} :
         IF Truthy(status)
         THEN /\ tasks' = [tasks EXCEPT ![i] =
                    [st |-> "done",
                     result |-> Found(subdomain_results[i].host,
                                      Url("http", subdomain_results[i].host),
                                      status, subdomain_results[i].ips)]]
              /\ doneq' = Append(doneq, i)
         ELSE /\ tasks' = [tasks EXCEPT ![i] = [st |-> "https"]]
              /\ doneq' = doneq
    /\ UNCHANGED <<jobs, http_response, wsvars, entry, dnsvars, psvars, events, hpc, subdomain_results,
                   validation_callback, v_progress_callback, total, v_completed,
                   v_last_reported_percentage, live_web_services, dns_only,
                   v_retval>>

\* check_http, second url: fetch_status(https://<subdomain>)
HttpsProbe(i) ==
    /\ hpc = "http" \/ ps_pc = "http"
    /\ tasks[i].st = "https"
    /\ \E status \in Statuses \cup {None} :
         tasks' = [tasks EXCEPT ![i] =
            [st |-> "done",
             result |-> IF Truthy(status)
                        THEN Found(subdomain_results[i].host,
                                   Url("https", subdomain_results[i].host),
                                   status, subdomain_results[i].ips)
                        ELSE NotFound(subdomain_results[i].host,
                                      subdomain_results[i].ips)]]
    /\ doneq' = Append(doneq, i)
    /\ UNCHANGED <<jobs, http_response, wsvars, entry, dnsvars, psvars, events, hpc, subdomain_results,
                   validation_callback, v_progress_callback, total, v_completed,
                   v_last_reported_percentage, live_web_services, dns_only,
                   v_retval>>

\* the validation_callback calls of the loop (http_validator.py 106-129)
Classification_LiveOnly(result, callback) ==
    IF callback /\ Truthy(result.status)
    THEN <<[type |-> "http_validated", subdomain |-> result.subdomain,
            url |-> result.url, status |-> result.status, ips |-> result.ips]>>
    ELSE <<>>

Classification(result, callback) ==
    IF ~callback THEN <<>>
    ELSE IF Truthy(result.status)
    THEN <<[type |-> "http_validated", subdomain |-> result.subdomain,
            url |-> result.url, status |-> result.status, ips |-> result.ips]>>
    ELSE <<[type |-> "dns_only", subdomain |-> result.subdomain,
            ips |-> result.ips]>>

\* one iteration of the asyncio.as_completed loop (http_validator.py 94-129)
HttpLoopBody(i, result) ==
    /\ LET c          == Incr(v_completed)
           percentage == HttpPercentage(c, total)
           report     == v_progress_callback
                           /\ HttpShouldReport(percentage,
                                               v_last_reported_percentage, c, total)
           ev1        == IF report THEN <<ProgressEvent(percentage, c, total)>>
                         ELSE <<>>
           ev2        == Classification(result, validation_callback)
       IN  /\ v_completed' = c
           /\ v_last_reported_percentage' =
                 UpdateLastReported(report, percentage,
                                    v_last_reported_percentage)
           /\ live_web_services' =
                 IF Truthy(result.status) THEN Append(live_web_services, result)
                 ELSE live_web_services
           /\ dns_only' =
                 IF Truthy(result.status) THEN dns_only
                 ELSE Append(dns_only, [subdomain |-> result.subdomain,
                                        ips |-> result.ips])
           /\ events' = events \o CallbackOrder(ev1, ev2)
           /\ tasks' = [tasks EXCEPT ![i] = [st |-> "awaited", result |-> result]]
    /\ UNCHANGED <<jobs, http_response, wsvars, entry, dnsvars, psvars, hpc, subdomain_results, validation_callback,
                   v_progress_callback, total, v_retval>>

\* as_completed yields a finished task (http_validator.py 94-95)
HttpConsume ==
    /\ hpc = "http"
    /\ doneq # <<>>
    /\ HttpLoopBody(Head(doneq), tasks[Head(doneq)].result)
    /\ doneq' = Tail(doneq)

\* the loop has awaited every task (http_validator.py 131-134)
HttpReturn ==
    /\ hpc = "http"
    /\ \A i \in DOMAIN tasks : tasks[i].st = "awaited"
    /\ hpc' = "returned"
    /\ v_retval' = [live_web_services |-> live_web_services, dns_only |-> dns_only]
    /\ UNCHANGED <<jobs, http_response, wsvars, entry, dnsvars, psvars, events, subdomain_results, validation_callback,
                   v_progress_callback, total, v_completed,
                   v_last_reported_percentage, tasks, doneq, live_web_services,
                   dns_only>>

(***************************************************************************)
(* joe/valid sites/valid_site_api.py                                       *)
(***************************************************************************)
Hosts == {HostOf(p) : p \in Prefixes}

\* resolve_domain: (sub, True, ips) or (sub, False, [])
resolve_domain(sub, dnszone) ==
    IF sub[1] \in dnszone THEN <<sub, TRUE, IpsOf(sub)>> ELSE <<sub, FALSE, <<>>>>

\* the lookups kept for dns_map: {... for r in results if r[1]}
Resolved_All(lookups) == lookups

Resolved(lookups) == SelectSeq(lookups, LAMBDA r : r[2])

\* dns_only keeps the alive subdomains without a web service
DnsOnlySubs_All(alive_subs, web_service_subdomains) == alive_subs

DnsOnlySubs(alive_subs, web_service_subdomains) ==
    SelectSeq(alive_subs, LAMBDA sub : sub \notin web_service_subdomains)

RECURSIVE Dedup(_)
Dedup(q) ==
    IF q = <<>> THEN <<>>
    ELSE LET rest == Dedup(SubSeq(q, 1, Len(q) - 1))
             x    == q[Len(q)]
         IN  IF \E j \in 1..Len(rest) : rest[j] = x THEN rest ELSE Append(rest, x)

\* process_subdomains is called (valid_site_api.py 85-91)
ProcessCall ==
    /\ entry = None
    /\ entry' = "process_subdomains"
    /\ \E input \in SeqsUpTo(Hosts, MaxHosts), z \in SUBSET Prefixes :
         /\ subs' = input
         /\ zone' = z
         /\ IF input = <<>>
            THEN /\ ps_pc' = "raised"
                 /\ raised' = "HTTPException400"
                 /\ ps_res' = <<>>
            ELSE /\ ps_pc' = "dns"
                 /\ raised' = None
                 /\ ps_res' = [i \in 1..Len(input) |-> PyNone]
    /\ UNCHANGED <<jobs, http_response, wsvars, dpc, wl, wordlist, crt, loaded, prefixes, threads, progress_callback,
                   subdomain_callback, total_prefixes, completed,
                   last_reported_percentage, fut, results, retval, httpvars,
                   dns_map, alive, ps_retval, events>>

\* a pool thread resolves one entry of subs (exe.map, valid_site_api.py 90-91)
PsResolve(i) ==
    /\ ps_pc = "dns"
    /\ IsNone(ps_res[i])
    /\ ps_res' = [ps_res EXCEPT ![i] = [r |-> resolve_domain(subs[i], zone)]]
    /\ UNCHANGED <<jobs, http_response, wsvars, entry, dnsvars, httpvars, ps_pc, subs, dns_map, alive,
                   ps_retval, events>>

\* every lookup has ended: dns_map, alive and the check_http tasks
\* (valid_site_api.py 93-99)
PsStartHttp ==
    /\ ps_pc = "dns"
    /\ \A i \in DOMAIN ps_res : ~IsNone(ps_res[i])
    /\ LET ok == Resolved([i \in DOMAIN ps_res |-> ps_res[i].r])
           ks == Dedup([i \in DOMAIN ok |-> ok[i][1]])
           m  == [k \in {ks[i] : i \in DOMAIN ks} |->
                    (CHOOSE r \in {ok[i] : i \in DOMAIN ok} : r[1] = k)[3]]
       IN  /\ dns_map' = m
           /\ alive' = ks
           /\ subdomain_results' = [i \in DOMAIN ks |-> [host |-> ks[i], ips |-> m[ks[i]]]]
           /\ tasks' = [i \in DOMAIN ks |-> [st |-> "http"]]
    /\ ps_pc' = "http"
    /\ UNCHANGED <<jobs, http_response, wsvars, entry, dnsvars, hpc, validation_callback, v_progress_callback,
                   total, v_completed, v_last_reported_percentage, doneq,
                   live_web_services, dns_only, v_retval, subs, ps_res,
                   ps_retval, events>>

\* asyncio.gather has every result; the two categories are separated and
\* the response is returned (valid_site_api.py 99-115)
PsReturn ==
    /\ ps_pc = "http"
    /\ \A i \in DOMAIN tasks : tasks[i].st = "done"
    /\ LET http_results == [i \in DOMAIN tasks |-> tasks[i].result]
           live == SelectSeq(http_results, LAMBDA r : Truthy(r.status))
           web_service_subdomains == {live[i].subdomain : i \in DOMAIN live}
           dnso == DnsOnlySubs(alive, web_service_subdomains)
       IN  ps_retval' =
             [live_web_services |-> live,
              dns_only |-> [i \in DOMAIN dnso |->
                              [subdomain |-> dnso[i], ips |-> dns_map[dnso[i]]]],
              total_subdomains |-> Len(subs),
              alive_dns |-> Len(alive),
              live_web_services_count |-> Len(live),
              dns_only_count |-> Len(dnso)]
    /\ ps_pc' = "returned"
    /\ UNCHANGED <<jobs, http_response, wsvars, entry, dnsvars, httpvars, subs, ps_res, dns_map, alive, events>>

Next ==
    \/ EnumCall
    \/ EnumLoad
    \/ DnsStart
    \/ \E i \in DOMAIN fut : DnsFinish(i)
    \/ \E i \in DOMAIN fut : DnsConsume(i)
    \/ DnsReturn
    \/ ValidateCall
    \/ \E i \in DOMAIN tasks : HttpProbe(i)
    \/ \E i \in DOMAIN tasks : HttpsProbe(i)
    \/ HttpConsume
    \/ HttpReturn
    \/ ProcessCall
    \/ \E i \in DOMAIN ps_res : PsResolve(i)
    \/ PsStartHttp
    \/ PsReturn

Spec == Init /\ [][Next]_vars

(***************************************************************************)
(* The progress rule over long wordlists: one worker, each task consumed   *)
(* by the loop as soon as it ends.                                         *)
(***************************************************************************)
EnumCallBig ==
    /\ entry = None
    /\ entry' = "enumerate_subdomains"
    /\ \E scb \in BOOLEAN :
         EnumEnter([wordlist_path |-> "file", preset_id |-> "1",
                    preset_exists |-> TRUE, passive |-> FALSE], 1, TRUE, scb)

EnumLoadBig ==
    \E words \in BigWordlists, dnszone \in SUBSET {"www"} :
        EnumSelect(words, dnszone, PyNone, <<>>)

DnsRunOne ==
    /\ dpc = "dns"
    /\ Queued # {}
    /\ LoopBody(Oldest(Queued), worker(prefixes[Oldest(Queued)], zone))

\* validate_subdomains over t resolved hosts, t up to MaxBigTotal; every
\* host answers on http, and a probe ends and is consumed before the next
\* one ends
ValidateCallBig ==
    /\ entry = None
    /\ entry' = "validate_subdomains"
    /\ \E t \in 1..MaxBigTotal :
         ValidateBegin([i \in 1..t |-> [host |-> HostOf("www"),
                                        ips |-> IpsOf(HostOf("www"))]],
                       FALSE, TRUE)
    /\ UNCHANGED <<jobs, http_response, wsvars, dnsvars, psvars, events>>

HttpRunOne ==
    /\ hpc = "http"
    /\ \E i \in DOMAIN tasks :
         /\ tasks[i].st = "http"
         /\ \A k \in DOMAIN tasks : tasks[k].st = "http" => i <= k
         /\ \E status \in Statuses :
              HttpLoopBody(i, Found(subdomain_results[i].host,
                                    Url("http", subdomain_results[i].host),
                                    status, subdomain_results[i].ips))
    /\ doneq' = doneq

NextProgress ==
    \/ EnumCallBig
    \/ EnumLoadBig
    \/ DnsRunOne
    \/ DnsReturn
    \/ ValidateCallBig
    \/ HttpRunOne
    \/ HttpReturn

SpecProgress == Init /\ [][NextProgress]_vars

(***************************************************************************)
(* Passive enumeration: enumerate_subdomains with passive on or off, over  *)
(* every wordlist and every response of crt.sh, one worker.                *)
(***************************************************************************)
EnumCallPassive ==
    /\ entry = None
    /\ entry' = "enumerate_subdomains"
    /\ \E p \in BOOLEAN :
         EnumEnter([wordlist_path |-> "file", preset_id |-> "1",
                    preset_exists |-> TRUE, passive |-> p], 1, FALSE, FALSE)

EnumLoadPassive ==
    \E words \in SeqsUpTo(Prefixes, MaxTotal), dnszone \in SUBSET {"www"},
       response \in CrtResponses :
        \E merged \in Merged(words, Extracted(fetch_crtsh_subdomains(response))) :
            EnumSelect(words, dnszone, response, merged)

NextPassive ==
    \/ EnumCallPassive
    \/ EnumLoadPassive
    \/ DnsRunOne
    \/ DnsReturn

SpecPassive == Init /\ [][NextPassive]_vars

(***************************************************************************)
(* One job of the pipeline of section 2 of the specification: the DNS      *)
(* phase, then the HTTP phase over the resolved hosts, both reporting to   *)
(* the same progress callback.  The hand-over is not in the sources        *)
(* (api.py calls enumerate_subdomains with an http_validation_callback     *)
(* that core.py does not accept); it is modelled from the specification.   *)
(***************************************************************************)
JobCall ==
    /\ entry = None
    /\ entry' = "job"
    /\ \E th \in 1..MaxThreads :
         EnumEnter([wordlist_path |-> "file", preset_id |-> "1",
                    preset_exists |-> TRUE, passive |-> FALSE], th, TRUE, FALSE)

JobValidate ==
    /\ entry = "job"
    /\ dpc = "returned"
    /\ hpc = "idle"
    /\ ValidateBegin(retval.subdomains, TRUE, TRUE)
    /\ UNCHANGED <<jobs, http_response, wsvars, entry, dnsvars, psvars, events>>

NextJob ==
    \/ JobCall
    \/ EnumLoad
    \/ DnsStart
    \/ \E i \in DOMAIN fut : DnsFinish(i)
    \/ \E i \in DOMAIN fut : DnsConsume(i)
    \/ DnsReturn
    \/ JobValidate
    \/ \E i \in DOMAIN tasks : HttpProbe(i)
    \/ \E i \in DOMAIN tasks : HttpsProbe(i)
    \/ HttpConsume
    \/ HttpReturn

SpecJob == Init /\ [][NextJob]_vars

(***************************************************************************)
(* api.py, websocket_enumerate: the handler coroutine (the consumer), the  *)
(* worker thread run_enumeration (the producer) and the event loop between *)
(* them.  The loop runs the callbacks of its ready queue in order; the     *)
(* thread appends to it with run_coroutine_threadsafe and                  *)
(* call_soon_threadsafe at any moment.                                     *)
(***************************************************************************)
\* the first message of the client, by what the handler does with it
Requests == {"invalid_json", "not_object", "no_domain", "valid"}

ErrorEvent(text) == [type |-> "error", message |-> text]

\* the keyword arguments of the call at api.py 233-242 and the parameters of
\* the function it calls (core.py 111-113)
WsKwargs ==
    {"domain", "wordlist_path", "preset_id", "passive", "timeout", "threads",
     "progress_callback", "http_validation_callback"}

EngineParams ==
    {"domain", "wordlist_path", "preset_id", "passive", "timeout", "threads",
     "progress_callback", "subdomain_callback"}

CallAccepted == WsKwargs \subseteq EngineParams

\* message["type"] in ["complete", "error"]
IsTerminal_CompleteOnly(message) == message.type = "complete"

IsTerminal(message) == message.type \in {"complete", "error"}

\* await websocket.send_json(message)
SendJson_Twice(sent, message) == Append(Append(sent, message), message)

SendJson(sent, message) == Append(sent, message)

Handle(kind, message) == [k |-> kind, msg |-> message]

WithoutTimer(handles) == SelectSeq(handles, LAMBDA h : h.k # "timeout")

\* the consumer runs from the loop condition (got = FALSE) or from a get that
\* returned (got = TRUE) until it suspends in wait_for or leaves the loop; a
\* send on a closed connection raises and the handler closes
RECURSIVE Consume(_, _, _, _)
Consume(q, sent, flag, got) ==
    IF ~got /\ flag /\ q = <<>>
    THEN [pc |-> "closed", q |-> q, sent |-> sent]
    ELSE IF q = <<>>
    THEN [pc |-> "wait", q |-> q, sent |-> sent]
    ELSE IF ~connected
    THEN [pc |-> "closed", q |-> Tail(q), sent |-> sent]
    ELSE IF IsTerminal(Head(q))
    THEN [pc |-> "closed", q |-> Tail(q), sent |-> SendJson(sent, Head(q))]
    ELSE Consume(Tail(q), SendJson(sent, Head(q)), flag, FALSE)

\* asyncio.wait_for(message_queue.get(), timeout=0.1): every wait of the
\* consumer arms the poll timer (api.py 273)
PollTimer_None(pc) == "off"

PollTimer(pc) == IF pc = "wait" THEN "armed" ELSE "off"

\* the consumer resumes and runs to its next suspension (api.py 270-281)
Resume(rest, got) ==
    LET c == Consume(message_queue, forwarded, enumeration_complete, got)
    IN  /\ ws_pc' = c.pc
        /\ message_queue' = c.q
        /\ forwarded' = c.sent
        /\ ready' = WithoutTimer(rest)
        /\ getter' = IF c.pc = "wait" THEN "pending" ELSE "none"
        /\ timer' = PollTimer(c.pc)

\* json.loads(data) returned an object and params.get("domain") is truthy
\* (api.py 190-199)
JobStarts_AnyJson(r) == r # "invalid_json"

JobStarts(r) == r = "valid"

WsAccept ==
    /\ entry = None
    /\ entry' = "websocket_enumerate"
    /\ ws_pc' = "receive"
    /\ connected' = TRUE
    /\ UNCHANGED <<jobs, http_response, dnsvars, httpvars, psvars, events, request, thread_pc, ready,
                   message_queue, enumeration_complete, getter, timer, produced,
                   forwarded>>

\* the client goes away; a pending receive_text raises WebSocketDisconnect
ClientDisconnect ==
    /\ ws_pc \in {"receive", "wait"}
    /\ connected
    /\ connected' = FALSE
    /\ ws_pc' = IF ws_pc = "receive" THEN "closed" ELSE ws_pc
    /\ UNCHANGED <<jobs, http_response, entry, dnsvars, httpvars, psvars, events, request, thread_pc,
                   ready, message_queue, enumeration_complete, getter, timer,
                   produced, forwarded>>

\* api.py 189-210 and 266-273: the request is read; a bad one is answered
\* with one error event, a good one starts the thread and the loop
WsReceive ==
    /\ ws_pc = "receive"
    /\ connected
    /\ \E r \in Requests :
         /\ request' = r
         /\ IF JobStarts(r)
            THEN /\ thread_pc' = "start"
                 /\ ws_pc' = "wait"
                 /\ getter' = "pending"
                 /\ timer' = "armed"
                 /\ UNCHANGED forwarded
            ELSE /\ forwarded' =
                      SendJson(forwarded,
                               ErrorEvent(CASE r = "invalid_json" -> "Invalid JSON format"
                                            [] r = "no_domain" -> "Domain is required"
                                            [] OTHER -> "AttributeError"))
                 /\ ws_pc' = "closed"
                 /\ UNCHANGED <<jobs, http_response, thread_pc, getter, timer>>
    /\ UNCHANGED <<jobs, http_response, entry, dnsvars, httpvars, psvars, events, connected, ready,
                   message_queue, enumeration_complete, produced>>

\* api.py 232-242: the call binds its keyword arguments and raises TypeError
ThreadCall ==
    /\ thread_pc = "start"
    /\ ~CallAccepted
    /\ thread_pc' = "except"
    /\ UNCHANGED <<jobs, http_response, entry, dnsvars, httpvars, psvars, events, ws_pc, connected,
                   request, ready, message_queue, enumeration_complete, getter,
                   timer, produced, forwarded>>

\* the events of the except branch for exception e (api.py 253-260)
ExceptEvents_None(e) == <<>>

ExceptEvents(e) == <<ErrorEvent(e)>>

\* api.py 253-260
ThreadExcept ==
    /\ thread_pc = "except"
    /\ thread_pc' = "finally"
    /\ produced' = produced \o ExceptEvents("TypeError")
    /\ ready' = ready \o [i \in DOMAIN ExceptEvents("TypeError") |->
                            Handle("put_cb", ExceptEvents("TypeError")[i])]
    /\ UNCHANGED <<jobs, http_response, entry, dnsvars, httpvars, psvars, events, ws_pc, connected,
                   request, message_queue, enumeration_complete, getter, timer,
                   forwarded>>

\* api.py 261-263
ThreadFinally ==
    /\ thread_pc = "finally"
    /\ thread_pc' = "done"
    /\ ready' = Append(ready, Handle("set", PyNone))
    /\ UNCHANGED <<jobs, http_response, entry, dnsvars, httpvars, psvars, events, ws_pc, connected,
                   request, message_queue, enumeration_complete, getter, timer,
                   produced, forwarded>>

\* api.py 273: the timeout of wait_for expires
TimerFire ==
    /\ ws_pc = "wait"
    /\ timer = "armed"
    /\ timer' = "fired"
    /\ ready' = Append(ready, Handle("timeout", PyNone))
    /\ UNCHANGED <<jobs, http_response, entry, dnsvars, httpvars, psvars, events, ws_pc, connected,
                   request, thread_pc, message_queue, enumeration_complete,
                   getter, produced, forwarded>>

\* the loop runs the callback of run_coroutine_threadsafe: the coroutine
\* message_queue.put(message) becomes a task whose first step is scheduled
LoopPutCallback ==
    /\ ready # <<>>
    /\ Head(ready).k = "put_cb"
    /\ ready' = Append(Tail(ready), Handle("put_step", Head(ready).msg))
    /\ UNCHANGED <<jobs, http_response, entry, dnsvars, httpvars, psvars, events, ws_pc, connected,
                   request, thread_pc, message_queue, enumeration_complete,
                   getter, timer, produced, forwarded>>

\* the task of message_queue.put(message) runs: the message is queued and a
\* consumer waiting in get is woken
LoopPutStep ==
    /\ ready # <<>>
    /\ Head(ready).k = "put_step"
    /\ message_queue' = Append(message_queue, Head(ready).msg)
    /\ IF getter = "pending"
       THEN /\ getter' = "woken"
            /\ ready' = Append(Tail(ready), Handle("wake", PyNone))
       ELSE /\ ready' = Tail(ready)
            /\ UNCHANGED getter
    /\ UNCHANGED <<jobs, http_response, entry, dnsvars, httpvars, psvars, events, ws_pc, connected,
                   request, thread_pc, enumeration_complete, timer, produced,
                   forwarded>>

\* enumeration_complete.set()
LoopSet ==
    /\ ready # <<>>
    /\ Head(ready).k = "set"
    /\ enumeration_complete' = TRUE
    /\ ready' = Tail(ready)
    /\ UNCHANGED <<jobs, http_response, entry, dnsvars, httpvars, psvars, events, ws_pc, connected,
                   request, thread_pc, message_queue, getter, timer, produced,
                   forwarded>>

\* the timer callback of wait_for cancels the pending get; the consumer is
\* woken unless a put has woken it already
LoopTimeout ==
    /\ ready # <<>>
    /\ Head(ready).k = "timeout"
    /\ getter' = "cancelled"
    /\ timer' = "off"
    /\ ready' = IF getter = "pending"
                THEN Append(Tail(ready), Handle("wake", PyNone))
                ELSE Tail(ready)
    /\ UNCHANGED <<jobs, http_response, entry, dnsvars, httpvars, psvars, events, ws_pc, connected,
                   request, thread_pc, message_queue, enumeration_complete,
                   produced, forwarded>>

\* the consumer resumes: with the message of its get, or with TimeoutError
\* and `continue` (api.py 273-281)
LoopWake ==
    /\ ready # <<>>
    /\ Head(ready).k = "wake"
    /\ Resume(Tail(ready), getter = "woken")
    /\ UNCHANGED <<jobs, http_response, entry, dnsvars, httpvars, psvars, events, connected, request,
                   thread_pc, enumeration_complete, produced>>

NextWs ==
    \/ WsAccept
    \/ ClientDisconnect
    \/ WsReceive
    \/ ThreadCall
    \/ ThreadExcept
    \/ ThreadFinally
    \/ TimerFire
    \/ LoopPutCallback
    \/ LoopPutStep
    \/ LoopSet
    \/ LoopTimeout
    \/ LoopWake

SpecWs == Init /\ [][NextWs]_vars

\* the event loop runs every callback of its ready queue, an armed timer
\* expires, and the thread of the executor keeps running
SpecWsLive ==
    /\ Init
    /\ [][NextWs]_vars
    /\ WF_vars(ThreadCall)
    /\ WF_vars(ThreadExcept)
    /\ WF_vars(ThreadFinally)
    /\ WF_vars(TimerFire)
    /\ WF_vars(LoopPutCallback)
    /\ WF_vars(LoopPutStep)
    /\ WF_vars(LoopSet)
    /\ WF_vars(LoopTimeout)
    /\ WF_vars(LoopWake)

(***************************************************************************)
(* Properties                                                              *)
(***************************************************************************)

\* C1: a job that was started for a client that stays connected does not end
\* without its terminal event (complete or error) having been forwarded to
\* the client, whatever the interleaving of the producer thread, the
\* completion flag and the consumer's poll timeout.
C1_TerminalForwarded ==
    (ws_pc = "closed" /\ request = "valid" /\ connected)
        => \E i \in DOMAIN forwarded : forwarded[i].type \in {"complete", "error"}

\* C2: once a terminal event has been forwarded the consumer has left its
\* loop and nothing follows it: a terminal event is the last event sent, so
\* there is at most one.
C2_NothingAfterTerminal ==
    \A i \in DOMAIN forwarded :
        forwarded[i].type \in {"complete", "error"}
            => i = Len(forwarded) /\ ws_pc = "closed"

C2_Witness ==
    /\ request = "valid"
    /\ ws_pc = "closed"
    /\ forwarded # <<>>
    /\ forwarded[Len(forwarded)].type = "error"

C4_CompleteEvent ==
    thread_pc = "done"
        => /\ \E i \in DOMAIN produced :
                /\ produced[i].type = "complete"
                /\ produced[i].count = Len(results)
           /\ \A i \in DOMAIN produced : produced[i].type # "error"

\* C5: whenever neither the given path nor the preset gives a readable
\* wordlist, the call raises FileNotFoundError or ValueError and leaves with
\* no DNS task submitted, no callback invoked and no result.
C5_WordlistFailure ==
    [][(dpc = "select" /\ wl.wordlist_path # "file"
            /\ (wl.preset_id = "6" \/ ~wl.preset_exists))
         => /\ dpc' = "raised"
            /\ raised' \in {"FileNotFoundError", "ValueError"}
            /\ fut' = <<>>
            /\ events' = <<>>
            /\ results' = <<>>
            /\ IsNone(retval')]_vars

C5_Witness ==
    /\ dpc = "raised"
    /\ raised = "FileNotFoundError"
    /\ wl.wordlist_path = "missing"
    /\ fut = <<>>

\* C6: a completion of the DNS phase emits a progress event exactly when the
\* new percentage is at least the last reported percentage plus 5, or is
\* 100; the last reported percentage becomes the new percentage when an
\* event is emitted and is unchanged otherwise.
C6_ProgressRule ==
    [][completed' = completed + 1
         => LET percentage == FMulInt(FDivInt(completed', total_prefixes), 100)
                emitted    == Len(events') > Len(events)
                               /\ events'[Len(events) + 1].type = "progress"
            IN  /\ emitted <=>
                     (NumGe(percentage, NumAdd(last_reported_percentage, 5))
                        \/ percentage = FromInt(100))
                /\ emitted => events'[Len(events) + 1].percentage = percentage
                /\ last_reported_percentage' =
                     IF emitted THEN percentage ELSE last_reported_percentage]_vars

C6_Witness ==
    /\ dpc = "dns"
    /\ total_prefixes = 40
    /\ completed = 2
    /\ Len(SelectSeq(events, LAMBDA e : e.type = "progress")) = 1

\* C7: a DNS phase emits at most 21 progress events, for every total >= 1.
C7_AtMost21 ==
    Len(SelectSeq(events, LAMBDA e : e.type = "progress")) <= 21

C7_Witness ==
    /\ dpc = "returned"
    /\ total_prefixes = 59
    /\ Len(SelectSeq(events, LAMBDA e : e.type = "progress")) = 21

\* C8: over a whole job (DNS phase, then HTTP phase) the percentages of the
\* progress events never decrease, and the last progress event before the
\* end of the job is at least 95.
C8_MonotoneProgress ==
    LET ps == SelectSeq(events, LAMBDA e : e.type = "progress")
    IN  /\ \A i \in 1..(Len(ps) - 1) : NumGe(ps[i + 1].percentage, ps[i].percentage)
        /\ (entry = "job" /\ hpc = "returned" /\ ps # <<>>)
              => NumGe(ps[Len(ps)].percentage, FromInt(95))

\* C9: in each phase the total is fixed when the phase starts, completed is
\* the number of tasks consumed so far, grows by exactly one per consumed
\* task, stays within 0..total and equals total when the phase ends.
C9_Counters ==
    /\ [](/\ dpc \in {"dns", "returned"}
             => /\ total_prefixes = Len(prefixes)
                /\ completed = Cardinality({i \in DOMAIN fut : fut[i].st = "yielded"})
                /\ 0 <= completed /\ completed <= total_prefixes
          /\ dpc = "returned" => completed = total_prefixes
          /\ hpc \in {"http", "returned"}
             => /\ total = Len(subdomain_results)
                /\ v_completed = Cardinality({i \in DOMAIN tasks : tasks[i].st = "awaited"})
                /\ 0 <= v_completed /\ v_completed <= total
          /\ hpc = "returned" => v_completed = total)
    /\ [][/\ dpc = "dns" => /\ total_prefixes' = total_prefixes
                            /\ completed' \in {completed, completed + 1}
          /\ hpc = "http" => /\ total' = total
                             /\ v_completed' \in {v_completed, v_completed + 1}]_vars

C9_Witness ==
    /\ dpc = "returned"
    /\ total_prefixes >= 2
    /\ completed = total_prefixes

\* C10: when HTTP validation has ended every resolved host is in exactly one
\* of live_web_services and dns_only, in live_web_services exactly when a
\* probe of it returned a status, so the two lengths add up to the number
\* of resolved hosts.
C10_Partition ==
    /\ hpc = "returned"
         => LET live == v_retval.live_web_services
                dnso == v_retval.dns_only
            IN  /\ Len(live) + Len(dnso) = Len(subdomain_results)
                /\ \A h \in {subdomain_results[k].host : k \in DOMAIN subdomain_results} :
                     /\ Cardinality({i \in DOMAIN live : live[i].subdomain = h})
                          = Cardinality({k \in DOMAIN tasks :
                                /\ subdomain_results[k].host = h
                                /\ tasks[k].result.status \in Statuses})
                     /\ Cardinality({i \in DOMAIN dnso : dnso[i].subdomain = h})
                          = Cardinality({k \in DOMAIN tasks :
                                /\ subdomain_results[k].host = h
                                /\ tasks[k].result.status = None})
    /\ ps_pc = "returned"
         => LET live == ps_retval.live_web_services
                dnso == ps_retval.dns_only
            IN  /\ ps_retval.live_web_services_count + ps_retval.dns_only_count
                     = ps_retval.alive_dns
                /\ Len(live) + Len(dnso) = Len(alive)
                /\ \A k \in DOMAIN alive :
                     /\ (\E i \in DOMAIN live : live[i].subdomain = alive[k])
                          <=> tasks[k].result.status \in Statuses
                     /\ (\E i \in DOMAIN dnso : dnso[i].subdomain = alive[k])
                          <=> tasks[k].result.status = None

C10_Witness ==
    /\ hpc = "returned"
    /\ Len(v_retval.live_web_services) = 1
    /\ Len(v_retval.dns_only) = 1

\* C11: every candidate is classified at most once by the DNS phase: a
\* candidate whose lookup failed is in no result and has no discovery event,
\* a candidate whose lookup succeeded is exactly once in the result list,
\* with its addresses, and has one discovery event when the callback is
\* set; so count <= total.
C11_OneClassification ==
    dpc \in {"dns", "returned"}
      => /\ \A h \in {HostOf(prefixes[i]) : i \in DOMAIN prefixes} :
              LET consumed == {i \in DOMAIN fut :
                                 /\ fut[i].st = "yielded"
                                 /\ HostOf(prefixes[i]) = h
                                 /\ prefixes[i] \in zone}
                  found    == {j \in DOMAIN results : results[j].host = h}
                  told     == {k \in DOMAIN events :
                                 /\ events[k].type = "subdomain"
                                 /\ events[k].host = h}
              IN  /\ Cardinality(found) = Cardinality(consumed)
                  /\ Cardinality(told) =
                       IF subdomain_callback THEN Cardinality(consumed) ELSE 0
                  /\ \A j \in found : results[j].ips = <<<<"ip", h[1]>>>>
         /\ Len(results) <= total_prefixes
         /\ dpc = "returned"
              => /\ retval.count = Len(retval.subdomains)
                 /\ retval.subdomains = results
                 /\ retval.count <= total_prefixes

C11_Witness ==
    /\ dpc = "returned"
    /\ total_prefixes = 2
    /\ retval.count = 1
    /\ subdomain_callback
    /\ Len(SelectSeq(events, LAMBDA e : e.type = "subdomain")) = 1

\* C12: a failed lookup never fails the job: the call never leaves the DNS
\* phase with an exception, a consumed task whose lookup failed is counted
\* in completed and adds no result, and the call returns only when every
\* candidate has been processed.
C12_FailureNotFatal ==
    /\ dpc \in {"dns", "returned"}
         => /\ raised = None
            /\ completed = Cardinality({i \in DOMAIN fut : fut[i].st = "yielded"})
            /\ Len(results) = Cardinality({i \in DOMAIN fut :
                                  fut[i].st = "yielded" /\ prefixes[i] \in zone})
            /\ \A j \in DOMAIN results : results[j].host[1] \in zone
    /\ dpc = "returned"
         => /\ \A i \in DOMAIN fut : fut[i].st = "yielded"
            /\ completed = total_prefixes
            /\ ~IsNone(retval)

C12_Witness ==
    /\ dpc = "returned"
    /\ total_prefixes = 2
    /\ completed = 2
    /\ \E i \in DOMAIN prefixes : prefixes[i] \notin zone
    /\ \E i \in DOMAIN prefixes : prefixes[i] \in zone
    /\ retval.count = 1

\* C13: at most `threads` lookups are in flight at any moment; the pool
\* holds one task per entry of the candidate list, a task is started only
\* from the queue and never a second time, so at the end every entry was
\* resolved exactly once.
C13_PoolBound ==
    /\ [](dpc \in {"dns", "returned"}
            => /\ Cardinality({i \in DOMAIN fut : fut[i].st = "running"}) <= threads
               /\ Len(fut) = total_prefixes
               /\ Len(fut) = Len(prefixes)
               /\ dpc = "returned"
                    => \A i \in DOMAIN fut : fut[i].st = "yielded")
    /\ [][dpc = "dns" /\ dpc' \in {"dns", "returned"}
            => /\ DOMAIN fut' = DOMAIN fut
               /\ prefixes' = prefixes
               /\ \A i \in DOMAIN fut :
                    \/ fut'[i].st = fut[i].st
                    \/ fut[i].st = "queued" /\ fut'[i].st = "running"
                    \/ fut[i].st = "running" /\ fut'[i].st = "done"
                    \/ fut[i].st = "done" /\ fut'[i].st = "yielded"]_vars

C13_Witness ==
    /\ dpc = "dns"
    /\ threads = 1
    /\ Cardinality({i \in DOMAIN fut : fut[i].st = "running"}) = 1
    /\ \E i \in DOMAIN fut : fut[i].st = "queued"

\* C14: the step of the coordinating thread that counts a successful task
\* also hands that task's host to the discovery callback, before completed
\* can grow again; a step makes at most one discovery call, and no other
\* step makes one.
C14_DiscoveryBeforeNext ==
    [][LET told(evs) == Len(SelectSeq(evs, LAMBDA e : e.type = "subdomain"))
       IN  IF dpc = "dns" /\ completed' = completed + 1
           THEN /\ Len(results') - Len(results) \in {0, 1}
                /\ told(events') - told(events) =
                     IF subdomain_callback THEN Len(results') - Len(results) ELSE 0
                /\ told(events') > told(events)
                     => /\ events'[Len(events')].type = "subdomain"
                        /\ events'[Len(events')].host = results'[Len(results')].host
                        /\ events'[Len(events')].ips = results'[Len(results')].ips
           ELSE told(events') = told(events)]_vars

C14_Witness ==
    /\ dpc = "dns"
    /\ subdomain_callback
    /\ completed = 1
    /\ Len(SelectSeq(events, LAMBDA e : e.type = "subdomain")) = 1
    /\ \E i \in DOMAIN fut : fut[i].st = "running"

\* C15: a probe tries http://<host> first and https://<host> only after the
\* http attempt gave no status; its result carries the url and status of
\* the first scheme that gave a status, and url and status are both null
\* exactly when neither scheme gave one.
C15_HttpThenHttps ==
    /\ [](\A i \in DOMAIN tasks :
             tasks[i].st \in {"done", "awaited"}
               => LET r == tasks[i].result
                      h == subdomain_results[i].host
                  IN  /\ r.subdomain = h
                      /\ r.ips = subdomain_results[i].ips
                      /\ \/ r.status = None /\ r.url = [none |-> TRUE]
                         \/ /\ r.status # None
                            /\ r.url \in {[scheme |-> "http", host |-> h],
                                          [scheme |-> "https", host |-> h]})
    /\ [][\A i \in DOMAIN tasks \cap DOMAIN tasks' :
             /\ tasks'[i].st = "https" => tasks[i].st \in {"http", "https"}
             /\ (tasks[i].st = "http" /\ tasks'[i].st = "done")
                  => /\ tasks'[i].result.status # None
                     /\ tasks'[i].result.url.scheme = "http"
             /\ (tasks[i].st = "https" /\ tasks'[i].st = "done")
                  => \/ tasks'[i].result.status = None
                     \/ tasks'[i].result.url.scheme = "https"]_vars

C15_Witness ==
    \E i \in DOMAIN tasks :
        /\ tasks[i].st = "done"
        /\ tasks[i].result.status = "200"
        /\ tasks[i].result.url = [scheme |-> "https", host |-> subdomain_results[i].host]

\* C16: each probe that the HTTP loop consumes gives exactly one
\* classification event for its host when the callback is set:
\* http_validated with subdomain, url, status and ips exactly when the probe
\* got a status, dns_only with subdomain and ips otherwise; no other step
\* emits a classification event.
C16_OneClassificationEvent ==
    [][LET cls(evs) == SelectSeq(evs, LAMBDA e : e.type \in {"http_validated", "dns_only"})
       IN  IF hpc = "http" /\ v_completed' = v_completed + 1
           THEN LET r == tasks[Head(doneq)].result
                    e == events'[Len(events')]
                IN  IF validation_callback
                    THEN /\ Len(cls(events')) = Len(cls(events)) + 1
                         /\ e.subdomain = subdomain_results[Head(doneq)].host
                         /\ e.ips = subdomain_results[Head(doneq)].ips
                         /\ IF r.status # None
                            THEN /\ e.type = "http_validated"
                                 /\ e.status = r.status
                                 /\ e.url = r.url
                                 /\ DOMAIN e = {"type", "subdomain", "url", "status", "ips"}
                            ELSE /\ e.type = "dns_only"
                                 /\ DOMAIN e = {"type", "subdomain", "ips"}
                    ELSE cls(events') = cls(events)
           ELSE cls(events') = cls(events)]_vars

C16_Witness ==
    /\ hpc = "returned"
    /\ validation_callback
    /\ \E k \in DOMAIN events : events[k].type = "dns_only"
    /\ \E k \in DOMAIN events : events[k].type = "http_validated"

\* C17: an HTTP-phase completion emits a progress event exactly when
\* 50 + (completed / total) * 50 is at least the last reported value plus 5
\* (45 at the start) or completed = total; the event carries that
\* percentage, which lies in 50..100; the phase keeps its own counters and
\* leaves those of the DNS phase alone.
C17_HttpProgressRule ==
    /\ [](hpc = "idle" => v_last_reported_percentage = [i |-> 45])
    /\ [][hpc = "http" /\ v_completed' = v_completed + 1
            => LET percentage == FAddInt(FMulInt(FDivInt(v_completed', total), 50), 50)
                   emitted    == Len(events') > Len(events)
                                  /\ events'[Len(events) + 1].type = "progress"
               IN  /\ emitted <=>
                        (NumGe(percentage, NumAdd(v_last_reported_percentage, 5))
                           \/ v_completed' = total)
                   /\ emitted
                        => /\ events'[Len(events) + 1].percentage = percentage
                           /\ events'[Len(events) + 1].completed = v_completed'
                           /\ events'[Len(events) + 1].total = total
                   /\ FGe(percentage, FromInt(50))
                   /\ FGe(FromInt(100), percentage)
                   /\ v_last_reported_percentage' =
                        IF emitted THEN percentage ELSE v_last_reported_percentage
                   /\ completed' = completed
                   /\ last_reported_percentage' = last_reported_percentage
                   /\ total_prefixes' = total_prefixes]_vars

C17_Witness ==
    /\ hpc = "http"
    /\ total = 30
    /\ v_completed = 3
    /\ Len(SelectSeq(events, LAMBDA e : e.type = "progress")) = 1

\* C18: a host is probed over HTTP only after its DNS lookup has succeeded,
\* and the phases are staged: when the first probe task exists every DNS
\* lookup of the call has ended; the DNS engine itself issues no probe.
C18_Staged ==
    /\ (entry = "process_subdomains" /\ tasks # <<>>)
         => /\ ps_pc \in {"http", "returned"}
            /\ \A k \in DOMAIN ps_res : ~IsNone(ps_res[k])
            /\ \A i \in DOMAIN tasks :
                 \E k \in DOMAIN subs :
                    /\ subs[k] = subdomain_results[i].host
                    /\ subs[k][1] \in zone
                    /\ ps_res[k].r[2]
    /\ entry = "enumerate_subdomains" => tasks = <<>>
    /\ (entry = "job" /\ tasks # <<>>)
         => /\ dpc = "returned"
            /\ \A k \in DOMAIN fut : fut[k].st = "yielded"
            /\ \A i \in DOMAIN tasks :
                 \E j \in DOMAIN results : results[j] = subdomain_results[i]

C18_Witness ==
    /\ entry = "process_subdomains"
    /\ ps_pc = "http"
    /\ Len(subs) = 2
    /\ Len(tasks) = 1
    /\ tasks[1].st = "https"

\* C19: the passive fetch gives an empty result on a timeout, a status other
\* than 200 or a body that is not JSON, and an enumeration with passive
\* enabled then has exactly the prefixes of the wordlist as its candidates
\* and raises nothing.
C19_PassiveFailure ==
    (/\ entry = "enumerate_subdomains"
     /\ ~IsNone(crt)
     /\ \/ crt.kind = "timeout"
        \/ crt.kind = "http" /\ (crt.code # "200" \/ ~crt.json))
      => /\ {prefixes[i] : i \in DOMAIN prefixes}
              = {wordlist[i] : i \in DOMAIN wordlist}
         /\ total_prefixes = Cardinality({wordlist[i] : i \in DOMAIN wordlist})
         /\ raised = None
         /\ dpc \in {"dns", "returned"}

C19_Witness ==
    /\ dpc = "returned"
    /\ ~IsNone(crt)
    /\ crt.kind = "http"
    /\ crt.code = "503"
    /\ crt.json
    /\ crt.names # {}
    /\ wordlist = <<"www", "mail">>
    /\ retval.count = 1

\* C20: the number of candidates is the number of prefixes the wordlist
\* loaded when passive is disabled, and at least that number when passive is
\* enabled.
C20_TotalAtLeastWordlist ==
    dpc \in {"dns", "returned"}
      => /\ IsNone(crt) => total_prefixes = Len(wordlist)
         /\ ~IsNone(crt) => total_prefixes >= Len(wordlist)

(***************************************************************************)
(* Concurrent jobs.  Each job is one call of enumerate_subdomains with its *)
(* own frame; its callbacks are closures over the queue of the handler     *)
(* that started it (api.py 208-230), and that handler alone reads the      *)
(* queue (api.py 270-274).  The call is made with the keyword arguments of *)
(* the WebSocket handler (api.py 233-242), of the REST handler (api.py     *)
(* 141-148) or of the signature itself (core.py 111-113).                  *)
(***************************************************************************)
RestKwargs ==
    {"domain", "wordlist_path", "preset_id", "passive", "timeout", "threads"}

JobWords == <<"www", "mail", "www", "mail">>

JobZone == {"www"}

\* the queue the callbacks of job j put to: message_queue is a local of the
\* handler (api.py 208)
QueueOf_Shared(j) == "a"

QueueOf(j) == j

Tagged(j, message) == [job |-> j, msg |-> message]

TwoStart(j) ==
    /\ jobs[j].pc = "none"
    /\ \E kw \in {WsKwargs, RestKwargs, EngineParams}, t \in 1..MaxTotal :
         jobs' =
           IF kw \subseteq EngineParams
           THEN [jobs EXCEPT ![j] = [@ EXCEPT !.pc = "run", !.kwargs = kw,
                                               !.total_prefixes = t]]
           ELSE [jobs EXCEPT ![j] = [@ EXCEPT !.pc = "raised", !.kwargs = kw],
                             ![QueueOf(j)].message_queue =
                                 Append(@, Tagged(j, ErrorEvent("TypeError")))]
    /\ UNCHANGED <<entry, dnsvars, httpvars, psvars, wsvars, events, http_response>>

\* one pass of the as_completed loop of job j (core.py 173-193)
TwoComplete(j) ==
    LET job        == jobs[j]
        res        == worker(JobWords[job.completed + 1], JobZone)
        c          == Incr(job.completed)
        percentage == DnsPercentage(c, job.total_prefixes)
        report     == "progress_callback" \in job.kwargs
                        /\ DnsShouldReport(percentage, job.last_reported_percentage)
    IN  /\ job.pc = "run"
        /\ job.completed < job.total_prefixes
        /\ jobs' =
             [jobs EXCEPT
                ![j] = [@ EXCEPT
                          !.completed = c,
                          !.last_reported_percentage =
                              UpdateLastReported(report, percentage, @),
                          !.results = IF ~IsNone(res) THEN Append(@, res) ELSE @],
                ![QueueOf(j)].message_queue =
                    IF report
                    THEN Append(@, Tagged(j, ProgressEvent(percentage, c,
                                                           job.total_prefixes)))
                    ELSE @]
        /\ UNCHANGED <<entry, dnsvars, httpvars, psvars, wsvars, events, http_response>>

TwoReturn(j) ==
    /\ jobs[j].pc = "run"
    /\ jobs[j].completed = jobs[j].total_prefixes
    /\ jobs' = [jobs EXCEPT ![j].pc = "returned"]
    /\ UNCHANGED <<entry, dnsvars, httpvars, psvars, wsvars, events, http_response>>

\* the consumer of job j takes a message from its queue and sends it
TwoForward(j) ==
    /\ jobs[j].message_queue # <<>>
    /\ jobs' = [jobs EXCEPT ![j].forwarded = SendJson(@, Head(jobs[j].message_queue)),
                            ![j].message_queue = Tail(@)]
    /\ UNCHANGED <<entry, dnsvars, httpvars, psvars, wsvars, events, http_response>>

NextTwo ==
    \/ \E j \in Jobs : TwoStart(j)
    \/ \E j \in Jobs : TwoComplete(j)
    \/ \E j \in Jobs : TwoReturn(j)
    \/ \E j \in Jobs : TwoForward(j)

SpecTwo == Init /\ [][NextTwo]_vars

(***************************************************************************)
(* api.py, enumerate: the REST handler calls enumerate_subdomains without  *)
(* callbacks and builds its response from the returned dict.               *)
(***************************************************************************)
\* the keys of the dict enumerate_subdomains returns (core.py 197-201)
ResultKeys == {"subdomains", "count", "elapsed_time"}

\* the keys the handler reads from it (api.py 150-155)
RestReads == {"count", "live_web_services", "dns_only", "elapsed_time"}

HttpError(code, detail) == [status |-> code, detail |-> detail]

\* api.py 141-148
RestCall ==
    /\ entry = None
    /\ entry' = "enumerate"
    /\ \E a \in WordlistArgs, th \in 1..MaxThreads : EnumEnter(a, th, FALSE, FALSE)

\* api.py 137-138 and 161-162: the HTTPException raised for an empty domain
\* is an Exception and is caught by the last handler
RestNoDomain ==
    /\ entry = None
    /\ entry' = "enumerate"
    /\ http_response' = HttpError("500", "Enumeration failed")
    /\ UNCHANGED <<dnsvars, httpvars, psvars, wsvars, events, jobs>>

\* api.py 150-162
RestRespond ==
    /\ entry = "enumerate"
    /\ IsNone(http_response)
    /\ dpc \in {"returned", "raised"}
    /\ http_response' =
         IF dpc = "raised"
         THEN CASE raised = "FileNotFoundError" -> HttpError("404", raised)
                [] raised = "ValueError" -> HttpError("400", raised)
                [] OTHER -> HttpError("500", "Enumeration failed")
         ELSE IF RestReads \subseteq ResultKeys
              THEN [status |-> "200", count |-> retval.count,
                    live_web_services |-> <<>>, dns_only |-> <<>>]
              ELSE HttpError("500", "Enumeration failed")
    /\ UNCHANGED <<entry, dnsvars, httpvars, psvars, wsvars, events, jobs>>

NextRest ==
    \/ RestCall
    \/ RestNoDomain
    \/ EnumLoad
    \/ DnsStart
    \/ \E i \in DOMAIN fut : DnsFinish(i)
    \/ \E i \in DOMAIN fut : DnsConsume(i)
    \/ DnsReturn
    \/ RestRespond

SpecRest == Init /\ [][NextRest]_vars

(***************************************************************************)
(* core.py, load_wordlist.  A line of the file is the text                 *)
(* [whitespace if lead] ["#" if hash] body newline; its stripped text is   *)
(* ["#" if hash] body.                                                     *)
(***************************************************************************)
FileLines == [lead : BOOLEAN, hash : BOOLEAN, body : {"", "www"}]

\* l.strip()
LineStrip(l) == [hash |-> l.hash, body |-> l.body]

\* "if l.strip()": the stripped text is not empty
LineNotBlank(l) == l.hash \/ l.body # ""

\* l.startswith('#'), on the line as read
LineStartsWithHash(l) == ~l.lead /\ l.hash

Kept(lines) ==
    SelectSeq(lines, LAMBDA l : LineNotBlank(l) /\ ~LineStartsWithHash(l))

load_wordlist(isfile, lines) ==
    IF ~isfile
    THEN [ok |-> FALSE, exc |-> "FileNotFoundError"]
    ELSE [ok |-> TRUE,
          lines |-> [i \in DOMAIN Kept(lines) |-> LineStrip(Kept(lines)[i])]]

LoadCall ==
    /\ entry = None
    /\ entry' = "load_wordlist"
    /\ dpc' = "load"
    /\ \E isfile \in BOOLEAN, lines \in SeqsUpTo(FileLines, MaxLines) :
         wl' = [isfile |-> isfile, lines |-> lines]
    /\ UNCHANGED <<wordlist, crt, raised, loaded, prefixes, zone, threads,
                   progress_callback, subdomain_callback, total_prefixes,
                   completed, last_reported_percentage, fut, results, retval,
                   httpvars, psvars, wsvars, events, jobs, http_response>>

LoadRun ==
    LET r == load_wordlist(wl.isfile, wl.lines)
    IN  /\ entry = "load_wordlist"
        /\ dpc = "load"
        /\ IF r.ok
           THEN dpc' = "returned" /\ wordlist' = r.lines /\ UNCHANGED raised
           ELSE dpc' = "raised" /\ raised' = r.exc /\ UNCHANGED wordlist
        /\ UNCHANGED <<entry, wl, crt, loaded, prefixes, zone, threads,
                       progress_callback, subdomain_callback, total_prefixes,
                       completed, last_reported_percentage, fut, results, retval,
                       httpvars, psvars, wsvars, events, jobs, http_response>>

NextLoad ==
    \/ LoadCall
    \/ LoadRun

SpecLoad == Init /\ [][NextLoad]_vars

\* C21: after a passive fetch that succeeded, the candidates added to the
\* wordlist are exactly the non-empty p such that some record of the
\* response, without its wildcard label, is p "." domain; so every added
\* candidate p "." domain is a name of the response.
C21_ExtractedExact ==
    (/\ entry = "enumerate_subdomains"
     /\ dpc \in {"dns", "returned"}
     /\ ~IsNone(crt)
     /\ crt.kind = "http"
     /\ crt.code = "200"
     /\ crt.json)
      => {prefixes[i] : i \in DOMAIN prefixes}
           = {wordlist[i] : i \in DOMAIN wordlist}
               \cup {n.pfx : n \in {m \in crt.names : /\ m.sep = "."
                                                       /\ m.pfx # ""
                                                       /\ m.dom = Domain}}

\* C22: a custom wordlist path that exists is the file that is read,
\* whatever the preset id; otherwise the file of the preset is read, an id
\* that is not in the table counting as preset "1" (top1k.txt), and the
\* preset without a file raising ValueError.
C22_WordlistSelection ==
    [][dpc = "select"
         => IF wl.wordlist_path = "file"
            THEN dpc' = "dns" /\ loaded' = "custom"
            ELSE CASE wl.preset_id \in {"1", "9"} /\ wl.preset_exists ->
                        dpc' = "dns" /\ loaded' = "top1k.txt"
                   [] wl.preset_id \in {"1", "9"} /\ ~wl.preset_exists ->
                        dpc' = "raised" /\ raised' = "FileNotFoundError"
                   [] OTHER ->
                        dpc' = "raised" /\ raised' = "ValueError"]_vars

C22_Witness ==
    /\ entry = "enumerate_subdomains"
    /\ dpc = "dns"
    /\ loaded = "custom"
    /\ wordlist = <<"mail", "www">>
    /\ completed = 1

\* C23: a first message that is not JSON, or that names no domain, is
\* answered with exactly one error event; no enumeration thread is started,
\* no lookup or probe is issued, no event is produced, and the connection
\* is closed.
C23_BadRequest ==
    request \in {"invalid_json", "no_domain"}
      => /\ ws_pc = "closed"
         /\ Len(forwarded) = 1
         /\ forwarded[1].type = "error"
         /\ forwarded[1].message =
              (IF request = "invalid_json" THEN "Invalid JSON format"
                                           ELSE "Domain is required")
         /\ thread_pc = "none"
         /\ produced = <<>>
         /\ ready = <<>>
         /\ message_queue = <<>>
         /\ fut = <<>>
         /\ tasks = <<>>
         /\ events = <<>>

C23_Witness ==
    /\ request = "no_domain"
    /\ ws_pc = "closed"
    /\ Len(forwarded) = 1
    /\ thread_pc = "none"

\* C24: with two jobs running at once, a step changes the counters and the
\* results of a job only as a completion of one of that job's own tasks and
\* leaves those of the other job alone, and every event a consumer was sent
\* was produced by its own job.
C24_JobsIsolated ==
    [][/\ \A j \in Jobs :
            (\/ jobs'[j].completed # jobs[j].completed
             \/ jobs'[j].last_reported_percentage # jobs[j].last_reported_percentage
             \/ jobs'[j].results # jobs[j].results)
              => /\ jobs[j].pc = "run"
                 /\ jobs'[j].completed = jobs[j].completed + 1
                 /\ jobs'[j].completed <= jobs[j].total_prefixes
                 /\ \A k \in Jobs \ {j} :
                      /\ jobs'[k].completed = jobs[k].completed
                      /\ jobs'[k].total_prefixes = jobs[k].total_prefixes
                      /\ jobs'[k].last_reported_percentage
                           = jobs[k].last_reported_percentage
                      /\ jobs'[k].results = jobs[k].results
                      /\ jobs'[k].message_queue = jobs[k].message_queue
                      /\ jobs'[k].forwarded = jobs[k].forwarded
       /\ \A j \in Jobs :
            /\ jobs'[j].total_prefixes # jobs[j].total_prefixes => jobs[j].pc = "none"
            /\ \A i \in DOMAIN jobs'[j].forwarded : jobs'[j].forwarded[i].job = j
            /\ \A i \in DOMAIN jobs'[j].message_queue :
                 jobs'[j].message_queue[i].job = j]_vars

C24_Witness ==
    /\ jobs["a"].pc = "run"
    /\ jobs["b"].pc = "run"
    /\ jobs["a"].completed = 1
    /\ jobs["b"].completed = 1
    /\ Len(jobs["a"].forwarded) = 1
    /\ Len(jobs["b"].forwarded) = 1
    /\ jobs["a"].total_prefixes = 2
    /\ jobs["b"].total_prefixes = 2

\* C25: a REST enumeration whose engine call returned answers 200 with
\* count, the number of resolved hosts, and the two classification lists.
C25_RestResult ==
    (entry = "enumerate" /\ dpc = "returned" /\ ~IsNone(http_response))
      => /\ http_response.status = "200"
         /\ http_response.count = Len(results)

\* C26: the loader returns, in file order and without removing duplicates,
\* the stripped text of exactly the lines that are not blank and not
\* comments, so that no returned prefix is empty or begins with "#"; a
\* missing path raises FileNotFoundError and returns nothing.
C26_LoaderContract ==
    /\ (entry = "load_wordlist" /\ dpc = "returned")
         => /\ wl.isfile
            /\ \A i \in DOMAIN wordlist :
                 ~wordlist[i].hash /\ wordlist[i].body # ""
            /\ LET kept == SelectSeq(wl.lines,
                                     LAMBDA l : l.body # "" /\ ~l.hash)
               IN  wordlist = [i \in DOMAIN kept |->
                                 [hash |-> FALSE, body |-> kept[i].body]]
    /\ (entry = "load_wordlist" /\ dpc = "raised")
         => /\ ~wl.isfile
            /\ raised = "FileNotFoundError"
            /\ wordlist = <<>>

\* C27: with one worker and 20 candidates a progress event follows every
\* completion: after c completions the progress events carry completed =
\* 1, ..., c in this order, and the one of the 20th carries 100.
C27_TwentyEvents ==
    (/\ entry = "enumerate_subdomains"
     /\ dpc \in {"dns", "returned"}
     /\ threads = 1
     /\ progress_callback
     /\ total_prefixes = 20)
      => LET progress == SelectSeq(events, LAMBDA e : e.type = "progress")
         IN  /\ Len(progress) = completed
             /\ \A i \in DOMAIN progress : progress[i].completed = i
             /\ completed = 20 => progress[20].percentage = FromInt(100)

\* C28: for a client that stays connected, whenever the completion flag is
\* set the terminal event of the job is on the message queue or was already
\* forwarded, so the loop condition is never "flag set and queue empty"
\* before a terminal event was forwarded.
C28_FlagAfterTerminal ==
    (connected /\ enumeration_complete)
      => \/ \E i \in DOMAIN message_queue :
              message_queue[i].type \in {"complete", "error"}
         \/ \E i \in DOMAIN forwarded :
              forwarded[i].type \in {"complete", "error"}

\* C29: a consumer that waits on the queue always has its poll timeout
\* armed or already delivered, and once the completion flag is set the
\* consumer leaves its loop and the handler closes the connection.
C29_LoopEnds ==
    /\ [](ws_pc = "wait"
            => \/ timer = "armed"
               \/ \E i \in DOMAIN ready : ready[i].k \in {"timeout", "wake"})
    /\ (enumeration_complete ~> ws_pc = "closed")

C29_Witness ==
    /\ enumeration_complete
    /\ ws_pc = "closed"
    /\ connected
    /\ message_queue = <<>>
    /\ Len(forwarded) = 1
    /\ thread_pc = "done"

\* C30: when the client of a started job has disconnected and the
\* completion flag is set, the enumeration has run to its end: the engine
\* returned with every candidate completed; and nothing the job produced
\* was sent to the client that left before the first event.
C30_DisconnectedJobCompletes ==
    (request = "valid" /\ ~connected /\ enumeration_complete)
      => /\ thread_pc = "done"
         /\ dpc = "returned"
         /\ completed = total_prefixes
         /\ forwarded = <<>>

\* C31: the REST handler answers an empty domain with 400 "Domain is
\* required" without calling the engine, a wordlist that is not found with
\* 404, an invalid configuration with 400, and only other failures with 500.
C31_RestErrorCodes ==
    (entry = "enumerate" /\ ~IsNone(http_response))
      => /\ dpc = "idle"
              => /\ http_response.status = "400"
                 /\ http_response.detail = "Domain is required"
         /\ (dpc = "raised" /\ raised = "FileNotFoundError")
              => http_response.status = "404"
         /\ (dpc = "raised" /\ raised = "ValueError")
              => http_response.status = "400"
         /\ http_response.status = "500" => dpc = "returned"

\* C32: a thread that has ended produced exactly one terminal event, as
\* its last event: the error event of the exception its engine call raised
\* and no complete event; the completion flag is set only after the thread
\* produced its terminal event, and it is set on every path of a started
\* thread.
C32_OneTerminalEvent ==
    /\ [](thread_pc \in {"finally", "done"}
            => /\ Len(SelectSeq(produced,
                                LAMBDA e : e.type \in {"complete", "error"})) = 1
               /\ produced[Len(produced)].type = "error")
    /\ [](enumeration_complete
            => /\ thread_pc = "done"
               /\ produced # <<>>
               /\ produced[Len(produced)].type \in {"complete", "error"})
    /\ (thread_pc = "start" ~> enumeration_complete)

C32_Witness ==
    /\ thread_pc = "done"
    /\ enumeration_complete
    /\ Len(produced) = 1
    /\ produced[1].type = "error"
    /\ ws_pc = "wait"

\* C33: the events of one completion are its progress event, if any,
\* followed by its discovery or classification event, if any; so when the
\* HTTP phase has ended with both callbacks given, the last event is the
\* classification of the last host and the one before it is the progress
\* event of completed = total.
C33_ProgressBeforeClassification ==
    /\ [][LET new == SubSeq(events', Len(events) + 1, Len(events'))
          IN  /\ Len(new) <= 2
              /\ \A i, j \in DOMAIN new :
                   (new[i].type = "progress" /\ new[j].type # "progress") => i < j
              /\ Len(new) = 2 => new[1].type = "progress" /\ new[2].type # "progress"]_vars
    /\ []((/\ entry = "validate_subdomains"
            /\ hpc = "returned"
            /\ validation_callback
            /\ v_progress_callback
            /\ total > 0)
           => /\ events[Len(events)].type \in {"http_validated", "dns_only"}
              /\ events[Len(events) - 1].type = "progress"
              /\ events[Len(events) - 1].completed = total)

C33_Witness ==
    /\ entry = "validate_subdomains"
    /\ hpc = "returned"
    /\ total = 2
    /\ Len(events) = 4
    /\ events[3].type = "progress"
    /\ events[3].completed = 2
    /\ events[4].type = "dns_only"

\* C34: with an empty candidate list the DNS phase submits no task, emits
\* no event, leaves its counters at their initial values and returns count
\* 0; with an empty host list the HTTP phase returns two empty lists at
\* once, with no task, no event and its counters untouched.
C34_EmptyInput ==
    /\ (/\ entry = "enumerate_subdomains"
         /\ dpc \in {"dns", "returned"}
         /\ total_prefixes = 0)
          => /\ fut = <<>>
             /\ events = <<>>
             /\ completed = 0
             /\ last_reported_percentage = [i |-> -5]
             /\ results = <<>>
             /\ dpc = "returned"
                  => retval = [subdomains |-> <<>>, count |-> 0]
    /\ (/\ entry = "validate_subdomains"
         /\ hpc # "idle"
         /\ subdomain_results = <<>>)
          => /\ hpc = "returned"
             /\ v_retval = [live_web_services |-> <<>>, dns_only |-> <<>>]
             /\ tasks = <<>>
             /\ events = <<>>
             /\ v_completed = 0
             /\ v_last_reported_percentage = [i |-> 45]

C34_Witness ==
    /\ entry = "enumerate_subdomains"
    /\ dpc = "returned"
    /\ total_prefixes = 0
    /\ progress_callback
    /\ subdomain_callback
    /\ retval.count = 0

\* C35: with a discovery callback, the hosts handed to it are, in this
\* order, the hosts of the result list, so the list is in the order in which
\* the completions were processed and the returned count is the number of
\* discovery calls; every resolved candidate that was processed is in it
\* once.
C35_ResultsInDiscoveryOrder ==
    (/\ entry = "enumerate_subdomains"
     /\ dpc \in {"dns", "returned"}
     /\ subdomain_callback)
      => LET told == SelectSeq(events, LAMBDA e : e.type = "subdomain")
         IN  /\ Len(told) = Len(results)
             /\ \A k \in DOMAIN told :
                  told[k].host = results[k].host /\ told[k].ips = results[k].ips
             /\ Len(results) =
                  Cardinality({i \in DOMAIN fut :
                                 fut[i].st = "yielded" /\ prefixes[i] \in zone})
             /\ dpc = "returned"
                  => /\ retval.count = Len(told)
                     /\ \A k \in DOMAIN told :
                          retval.subdomains[k].host = told[k].host

C35_Witness ==
    /\ entry = "enumerate_subdomains"
    /\ dpc = "returned"
    /\ subdomain_callback
    /\ prefixes = <<"www", "mail">>
    /\ retval.count = 2
    /\ retval.subdomains[1].host = <<"mail", "example.com">>
    /\ retval.subdomains[2].host = <<"www", "example.com">>

====
